---- MODULE Spec2Model ----
(***************************************************************************)
(* AssetTracker: the offline write path of the useAssets hook (App.tsx),   *)
(* the connectivity probe of useNetworkStatus (App.tsx) and the service    *)
(* status derivation of utils/helpers (unnamed/part_000), together with   *)
(* the asset operations of api/assets with their history entries and      *)
(* image lists (unnamed/part_000), the cached asset list of useAssets and  *)
(* the start-up of App (App.tsx, firebase/config.ts).                      *)
(*                                                                         *)
(* One hook instance is modelled.  React state is the value the latest     *)
(* render sees; a callback obtained from the hook closes over the state of *)
(* the render that created it.  Every `await` on AsyncStorage is a         *)
(* suspension point: the call is issued in one step and completes in a     *)
(* later one.                                                              *)
(***************************************************************************)
EXTENDS Integers, Sequences, FiniteSets, TLC

\* ------------------------------------------------------------------ bounds
MaxItems == 2        \* addToOfflineQueue calls in one behaviour
MaxPending == 2      \* AsyncStorage.setItem calls awaiting completion
MaxRetryCount == 1   \* the "configurable maximum" of retries the design names
RetryCap == MaxRetryCount + 1   \* retryCount values the model explores

Docs == {"A", "B"}   \* target document identifiers
NoValue == <<"null">>   \* AsyncStorage.getItem result for a key never written

MaxFetch == 1        \* connectivity probes awaiting their response
TicksPerDay == 2     \* clock resolution: instants per calendar day
MaxClockDays == 2    \* days the clock runs over
DueSoonDays == 30    \* the due-soon window of getServiceStatus
Absent == <<>>       \* a missing nextServiceDue; a present one is <<instant>>

MaxRemote == 2       \* versions of the asset list the Remote Store goes through
MaxChars == 3        \* length of the frequency texts given to the parser
MaxAssets == 2       \* length of the asset lists given to the cache round trip
MaxImageCalls == 2   \* uploadAssetImage / deleteAssetImage calls in one behaviour
DaysPerMonth == 30   \* "Approximate days" of a month (part_000:64)
DaysPerYear == 365   \* days of a year (part_000:71)

VARIABLES
  offlineQueue,   \* useState<OfflineQueueItem[]> (App.tsx:252)
  syncing,        \* state.syncing (App.tsx:238)
  queueStore,     \* value under OFFLINE_QUEUE_KEY in AsyncStorage
  storeOps,       \* setItem calls on OFFLINE_QUEUE_KEY issued and not completed,
                  \* oldest first; a call of a pass carries what its loop did
  effPc,          \* position of setupSubscription (App.tsx:352-374)
  effQueue,       \* offlineQueue of the render whose effect is running
  nextId,         \* ids handed out by generateUniqueId
  returned,       \* ids whose addToOfflineQueue call has returned
  remoteLog,      \* ids the Remote Store has received from a replay, in order
  isOnline,       \* useState(true) of useNetworkStatus (App.tsx:440)
  fetchPending,   \* probes issued by checkConnection and not settled
  awaitingSync,   \* connectivity came back with a non-empty queue and
                  \* processOfflineQueue has not been called since
  now,            \* the clock, in instants since local midnight of day 0
  nextServiceDue, \* the asset's nextServiceDue instant, or Absent
  serviceStatus,  \* result of the latest getServiceStatus call, if any
  evaluatedAt,    \* the clock when that call was made
  frequency,      \* text given to parseServiceFrequency, or Absent
  lastServiceDate,      \* date given to calculateNextServiceDue, or Absent
  serviceFrequencyDays, \* result of parseServiceFrequency: <<days>> or Absent
  helperPc,       \* "input", then "parsed", then "calculated"
  asset,          \* the asset document in the Remote Store
  serviceRecords, \* the serviceRecords collection, in order of writing
  svc,            \* the addServiceRecord call: its position and locals
  upd,            \* the updateAsset call: its position and currentAsset
  displayed,      \* the serviceStatus a screen or getAssetsDueSoon last read
  historyWrite,   \* what became of the history entries of the call that
                  \* returned last: "none" asked for, all "written", or one
                  \* "failed" (logged by addHistoryEntry)
  reported,       \* how the call that returned last ended: "ok", or "failed"
                  \* when it threw; "none" before any call
  imageUrls,      \* the imageUrls field of the asset document
  img,            \* the uploadAssetImage / deleteAssetImage calls: position,
                  \* URL and the imageUrls each has read
  assets,         \* state.assets (App.tsx:246)
  loading,        \* state.loading (App.tsx:247)
  cachedStore,    \* value under CACHED_ASSETS_KEY in AsyncStorage
  cacheOps,       \* setItem calls on CACHED_ASSETS_KEY issued and not completed
  remote,         \* the asset list the Remote Store holds, newest first
  delivered,      \* <<list>> for the list the hook was last handed by the
                  \* subscription or by getAssets since the process started,
                  \* <<>> if none
  refreshPc,      \* position of refresh (App.tsx:386-399)
  listening,      \* the listener subscribeToAssets registered is in place
  unmounted,      \* the component using the hook is unmounted: the cleanup
                  \* of its effect has run and no effect follows
  firebaseConfig, \* the keys of firebaseConfig that have a value (config.ts:40-48)
  bootPc,         \* position of the start of the application
  app,            \* the module-level `app` of config.ts is set (config.ts:65)
  appLoading,     \* useState(true) of App (App.tsx:16)
  appError,       \* the error state of App is set (App.tsx:17)
  remoteOps       \* a Remote Store operation has been issued

queueVars == <<offlineQueue, syncing, queueStore, storeOps, effPc, effQueue,
               nextId, returned, remoteLog>>

netVars == <<isOnline, fetchPending, awaitingSync>>

statusVars == <<now, nextServiceDue, serviceStatus, evaluatedAt>>

helperVars == <<frequency, lastServiceDate, serviceFrequencyDays, helperPc>>

assetVars == <<asset, serviceRecords, svc, upd, displayed, historyWrite, reported,
               imageUrls, img>>

cacheVars == <<assets, loading, cachedStore, cacheOps, remote, delivered, refreshPc,
               listening, unmounted>>

startVars == <<firebaseConfig, bootPc, app, appLoading, appError, remoteOps>>

appVars == <<helperVars, assetVars, cacheVars, startVars>>

vars == <<queueVars, netVars, statusVars, appVars>>

\* ------------------------------------------------------------ pure helpers
Ids(q) == {q[i].id : i \in 1..Len(q)}

\* the keys of AsyncStorage the hook uses (App.tsx:241-242).
OFFLINE_QUEUE_KEY == "@assettracker_offline_queue"
SharedKey == "@assettracker_offline_queue"   \* one key for queue and cache
CACHED_ASSETS_KEY == "@assettracker_cached_assets"

\* an asset as far as the cache is concerned: its id and its safeWorkingLoad
\* (part_000:1657-1684), a number, written "1", or the NaN that parseFloat
\* gives a text without a number (part_000:923, 1035).
Asset(id, load) == [id |-> id, safeWorkingLoad |-> load]

\* JSON.stringify of one element of a list: a number that is NaN is written
\* as null; queue items and the other assets are written as they are.
JSONvalue(v) ==
  IF "safeWorkingLoad" \in DOMAIN v /\ v.safeWorkingLoad = "NaN"
  THEN [v EXCEPT !.safeWorkingLoad = "null"]
  ELSE v

\* JSON.stringify / JSON.parse of a list (App.tsx:259, 270, 281, 291): the
\* stored value is a string, distinct from the list it encodes.
JSONstringify(q) == <<"json", [i \in 1..Len(q) |-> JSONvalue(q[i])]>>
JSONparse(s) == s[2]

\* a stored value JSON.parse throws on, and the test that it does not.
Corrupt == <<"corrupt">>
Deserializes(s) == s[1] = "json"

\* the list a reload obtains from the store (App.tsx:277-286): getItem, and
\* setOfflineQueue only when the value is truthy; otherwise the initial [].
LoadedQueue(s) == IF s = NoValue \/ ~Deserializes(s) THEN <<>> ELSE JSONparse(s)

\* the dead-letter list.  The source keeps none: processOfflineQueue has a
\* single catch branch that re-queues the item (App.tsx:334-341).
deadLetter == <<>>

\* OfflineQueueItem built by addToOfflineQueue (App.tsx:305-313); the payload
\* is identified with the item id, retryCount starts at 0.
NewItem(id, doc) == [id |-> id, documentId |-> doc, data |-> id, retryCount |-> 0]

\* remainingQueue of one pass (App.tsx:325-342): an item whose try body
\* completes is not added back; one whose try body throws is pushed with
\* retryCount + 1, whatever the error.
RECURSIVE RemainingQueue(_, _)
RemainingQueue(q, outcome) ==
  IF q = <<>> THEN <<>>
  ELSE LET rest == RemainingQueue(Tail(q), Tail(outcome))
       IN IF Head(outcome) = "ok"
          THEN rest
          ELSE <<[Head(q) EXCEPT !.retryCount = @ + 1]>> \o rest

Outcomes == {"ok", "transient", "permanent"}

\* --------------------------------------------- service status derivation
\* differenceInDays of date-fns as calculateDaysUntilService uses it
\* (part_000:112): the number of full days between the two instants,
\* truncated towards zero.
differenceInDays(dateLeft, dateRight) ==
  IF dateLeft >= dateRight
  THEN (dateLeft - dateRight) \div TicksPerDay
  ELSE -((dateRight - dateLeft) \div TicksPerDay)

\* calculateDaysUntilService (part_000:106-117) at clock value today.
calculateDaysUntilService(due, today) == differenceInDays(due, today)

\* getServiceStatus (part_000:122-131).
getServiceStatus(due, today) ==
  IF due = Absent THEN "current"
  ELSE LET daysUntil == calculateDaysUntilService(due[1], today)
       IN IF daysUntil < 0 THEN "overdue"
          ELSE IF daysUntil <= DueSoonDays THEN "due-soon"
          ELSE "current"

\* nextServiceDue values: calculateNextServiceDue adds whole days to a
\* lastServiceDate that the forms give as a date without time of day
\* (AddServiceRecordScreen.tsx:23), which parseISO reads as local midnight.
DueInstants == {<<d * TicksPerDay>> : d \in 0..(MaxClockDays + DueSoonDays + 1)}

\* Texts are sequences of characters.  A keyword of the parser is written as
\* one character, "garbage" stands for letters that form no keyword, and
\* "Yearly" is the keyword in upper case.  The empty text and undefined are
\* both Absent: `!frequency` (part_000:55) treats them alike.
Chars == {"0", "1", "3", "6", "-", " ", "monthly", "yearly", "annual", "Yearly",
          "garbage"}

DigitChars == {"0", "1", "3", "6"}

DigitValue(c) == CASE c = "0" -> 0 [] c = "1" -> 1 [] c = "3" -> 3 [] c = "6" -> 6

RECURSIVE TextsOfLength(_)
TextsOfLength(n) ==
  IF n = 0 THEN {<<>>}
  ELSE {Append(t, c) : t \in TextsOfLength(n - 1), c \in Chars}

Texts == UNION {TextsOfLength(n) : n \in 0..MaxChars}

NaN == <<>>          \* parseInt found no digits; a number n is <<n>>

RECURSIVE trimStart(_)
trimStart(s) == IF s # <<>> /\ Head(s) = " " THEN trimStart(Tail(s)) ELSE s

RECURSIVE trimEnd(_)
trimEnd(s) ==
  IF s # <<>> /\ s[Len(s)] = " " THEN trimEnd(SubSeq(s, 1, Len(s) - 1)) ELSE s

trim(s) == trimEnd(trimStart(s))

toLowerCase(s) == [i \in 1..Len(s) |-> IF s[i] = "Yearly" THEN "yearly" ELSE s[i]]

includes(s, word) == \E i \in 1..Len(s) : s[i] = word

\* number of leading digits of s.
RECURSIVE DigitPrefix(_)
DigitPrefix(s) ==
  IF s # <<>> /\ Head(s) \in DigitChars THEN 1 + DigitPrefix(Tail(s)) ELSE 0

RECURSIVE DecimalValue(_)
DecimalValue(ds) ==
  IF ds = <<>> THEN 0
  ELSE 10 * DecimalValue(SubSeq(ds, 1, Len(ds) - 1)) + DigitValue(ds[Len(ds)])

\* parseInt: leading white space is skipped, a sign is accepted, then the
\* longest run of digits is read and whatever follows is ignored; NaN when
\* there is no digit.
parseInt(s) ==
  LET t == trimStart(s)
      negative == t # <<>> /\ Head(t) = "-"
      u == IF negative THEN Tail(t) ELSE t
      n == DigitPrefix(u)
      v == DecimalValue(SubSeq(u, 1, n))
  IN IF n = 0 THEN NaN ELSE IF negative THEN <<0 - v>> ELSE <<v>>

\* parseServiceFrequency (part_000:54-80).
parseServiceFrequency(text) ==
  IF text = Absent THEN Absent
  ELSE LET trimmed == toLowerCase(trim(text))
           n == parseInt(trimmed)
       IN IF includes(trimmed, "monthly") /\ n # NaN THEN <<n[1] * DaysPerMonth>>
          ELSE IF includes(trimmed, "yearly") \/ includes(trimmed, "annual")
            THEN <<(IF n = NaN \/ n[1] = 0 THEN 1 ELSE n[1]) * DaysPerYear>>
          ELSE IF n # NaN THEN <<n[1]>>
          ELSE Absent

\* Dates are <<instant>>, instants counted in local time from midnight of
\* day 0.  parseISO reads the instant of a date text, toISOString writes it.
parseISO(text) == text[1]
toISOString(date) == <<date>>

\* date-fns addDays with the day taken for a single instant.
addInstants(date, amount) == date + amount

\* date-fns addDays: setDate(getDate() + amount), the same local time of
\* day `amount` calendar days later.
addDays(date, amount) == date + amount * TicksPerDay

\* calculateNextServiceDue (part_000:85-101); `!serviceFrequencyDays` is
\* true for undefined and for 0.
calculateNextServiceDue(last, days) ==
  IF last = Absent \/ days = Absent \/ days = <<0>> THEN Absent
  ELSE toISOString(addDays(parseISO(last), days[1]))

\* last service dates the forms and the import produce: midnight or a time
\* within the day, on the days the clock runs over.
ServiceDates == {<<i>> : i \in 0..(MaxClockDays * TicksPerDay + 1)}

\* ------------------------------------------------------------------- Init
InitQueue ==
  /\ offlineQueue = <<>>
  /\ syncing = FALSE
  /\ queueStore = NoValue
  /\ storeOps = <<>>
  /\ effPc = "loadCached"
  /\ effQueue = <<>>
  /\ nextId = 1
  /\ returned = {}
  /\ remoteLog = <<>>

\* useNetworkStatus after its first render: online is assumed and the
\* effect has issued the first probe (App.tsx:440, 452).
InitNet ==
  /\ isOnline = TRUE
  /\ fetchPending = 1
  /\ awaitingSync = FALSE

\* no helper call has been made.
InitHelpers ==
  /\ frequency = Absent
  /\ lastServiceDate = Absent
  /\ serviceFrequencyDays = Absent
  /\ helperPc = "input"

\* the calls of one behaviour on the images of the asset.
ImageCalls == 1..MaxImageCalls

\* updateAsset between two calls.
UpdIdle == [pc |-> "idle", status |-> "", lastServiceDate |-> Absent,
            serviceFrequency |-> Absent, nextServiceDue |-> Absent,
            serviceStatus |-> "current"]

\* no call of the asset services is running and none has returned.
NoCalls ==
  /\ svc = [pc |-> "idle", serviceDate |-> Absent, cost |-> Absent,
            serviceFrequency |-> Absent, hasNextServiceDue |-> FALSE,
            nextServiceDue |-> Absent, serviceStatus |-> "current"]
  /\ upd = UpdIdle
  /\ displayed = "none"
  /\ historyWrite = "none"
  /\ reported = "none"
  /\ img = [c \in ImageCalls |-> [pc |-> "idle", kind |-> "none", url |-> 0,
                                  read |-> <<>>]]

\* no asset document yet and no call running.
InitAsset ==
  /\ asset = [exists |-> FALSE, status |-> "", serviceFrequency |-> Absent,
              lastServiceDate |-> Absent, nextServiceDue |-> Absent,
              serviceStatus |-> "current"]
  /\ serviceRecords = <<>>
  /\ imageUrls = <<>>
  /\ NoCalls

\* the hook before its effect has run, nothing cached, the Remote Store at
\* its first list.
InitCache ==
  /\ assets = <<>>
  /\ loading = TRUE
  /\ cachedStore = NoValue
  /\ cacheOps = <<>>
  /\ remote = <<Asset(1, "1")>>
  /\ delivered = <<>>
  /\ refreshPc = "idle"
  /\ listening = FALSE
  /\ unmounted = FALSE

ConfigKeys == {"apiKey", "authDomain", "projectId", "storageBucket",
               "messagingSenderId", "appId", "measurementId"}

requiredKeys == {"apiKey", "authDomain", "projectId", "storageBucket", "appId"}

\* the bundle is loaded and no module has been evaluated.
InitStart ==
  /\ bootPc = "bundle"
  /\ app = FALSE
  /\ appLoading = TRUE
  /\ appError = FALSE
  /\ remoteOps = FALSE

InitApp ==
  /\ InitHelpers
  /\ InitAsset
  /\ InitCache
  /\ firebaseConfig = ConfigKeys
  /\ InitStart

Init ==
  /\ InitQueue
  /\ InitNet
  /\ now = 0
  /\ nextServiceDue = Absent
  /\ serviceStatus = "none"
  /\ evaluatedAt = 0
  /\ InitApp

\* ---------------------------------------------------------------- actions
\* addToOfflineQueue (App.tsx:299-317) up to the await inside
\* saveOfflineQueue: builds the item, appends it to the offlineQueue of the
\* current render and issues setItem.
AddToOfflineQueue(doc) ==
  /\ nextId <= MaxItems
  /\ Len(storeOps) < MaxPending
  /\ storeOps' = Append(storeOps,
        [op |-> "enqueue", queue |-> Append(offlineQueue, NewItem(nextId, doc)),
         id |-> nextId, log |-> <<>>])
  /\ nextId' = nextId + 1
  /\ UNCHANGED <<offlineQueue, syncing, queueStore, effPc, effQueue, returned,
                 remoteLog, netVars, statusVars, appVars>>

\* what the loop of one pass did, item by item (App.tsx:327-342).
PassLog(q, outcome) ==
  [i \in 1..Len(q) |-> [item |-> q[i], outcome |-> outcome[i]]]

\* the body of processOfflineQueue (App.tsx:323-344) for the offlineQueue q
\* its closure holds, up to the await on saveOfflineQueue.  The loop is
\* synchronous; the try body only logs the item and reaches no Remote Store
\* operation, so remoteLog is left alone.
ProcessPass(q, outcome) ==
  /\ syncing' = IF unmounted THEN syncing ELSE TRUE
  /\ storeOps' = Append(storeOps,
        [op |-> "flush", queue |-> RemainingQueue(q, outcome), id |-> 0,
         log |-> PassLog(q, outcome)])
  /\ UNCHANGED <<offlineQueue, queueStore, nextId, returned, remoteLog>>

\* the ways the try body of each iteration can end: it completes, or it
\* throws and the catch block runs.  retryCount is explored up to RetryCap.
PassOutcomes(q) ==
  {o \in [1..Len(q) -> Outcomes] :
     \A i \in 1..Len(q) : o[i] # "ok" => q[i].retryCount < RetryCap}

\* processOfflineQueue called through the handle the hook returns
\* (App.tsx:431); an empty queue returns at once (App.tsx:321).
ProcessOfflineQueue ==
  /\ awaitingSync' = FALSE
  /\ IF Len(offlineQueue) = 0
     THEN UNCHANGED <<offlineQueue, syncing, queueStore, storeOps, nextId,
                      returned, remoteLog>>
     ELSE /\ Len(storeOps) < MaxPending
          /\ \E outcome \in PassOutcomes(offlineQueue) :
                ProcessPass(offlineQueue, outcome)
  /\ UNCHANGED <<effPc, effQueue, isOnline, fetchPending, statusVars, appVars>>

\* completion of the oldest pending setItem and the rest of saveOfflineQueue
\* (App.tsx:289-296): on success the store holds the serialized queue and
\* setOfflineQueue runs; on rejection the error is logged and nothing else
\* happens.  Then the caller resumes: addToOfflineQueue returns, or
\* processOfflineQueue clears syncing (App.tsx:345).  React drops the state
\* updates of a component that is unmounted.
SaveOfflineQueueDone(ok) ==
  /\ storeOps # <<>>
  /\ LET call == Head(storeOps) IN
       /\ IF ok
          THEN /\ queueStore' = JSONstringify(call.queue)
               /\ offlineQueue' = IF unmounted THEN offlineQueue ELSE call.queue
          ELSE UNCHANGED <<queueStore, offlineQueue>>
       /\ IF call.op = "enqueue"
          THEN /\ returned' = returned \cup {call.id}
               /\ UNCHANGED syncing
          ELSE /\ syncing' = IF unmounted THEN syncing ELSE FALSE
               /\ UNCHANGED returned
  /\ storeOps' = Tail(storeOps)
  /\ UNCHANGED <<effPc, effQueue, nextId, remoteLog, netVars, statusVars, appVars>>

\* setupSubscription, first await (App.tsx:355).
\* loadCachedAssets (App.tsx:255-265): a truthy value is parsed and put in
\* state.assets with loading false; a rejected getItem or a throwing
\* JSON.parse is caught and logged, and nothing else is done.
EffLoadCachedAssets(ok) ==
  /\ effPc = "loadCached"
  /\ effPc' = "loadQueue"
  /\ IF ok /\ cachedStore # NoValue /\ Deserializes(cachedStore) /\ ~unmounted
     THEN /\ assets' = JSONparse(cachedStore)
          /\ loading' = FALSE
     ELSE UNCHANGED <<assets, loading>>
  /\ UNCHANGED <<offlineQueue, syncing, queueStore, storeOps, effQueue, nextId,
                 returned, remoteLog, netVars, statusVars, helperVars, assetVars,
                 startVars, cachedStore, cacheOps, remote, delivered, refreshPc,
                 listening, unmounted>>

\* loadOfflineQueue (App.tsx:277-286) awaited by setupSubscription
\* (App.tsx:356): a rejected getItem is logged and leaves the state alone.
EffLoadOfflineQueue(ok) ==
  /\ effPc = "loadQueue"
  /\ effPc' = "process"
  /\ offlineQueue' = IF ok /\ queueStore # NoValue /\ Deserializes(queueStore)
                          /\ ~unmounted
                     THEN JSONparse(queueStore) ELSE offlineQueue
  /\ UNCHANGED <<syncing, queueStore, storeOps, effQueue, nextId, returned,
                 remoteLog, netVars, statusVars, appVars>>

\* the end of setupSubscription (App.tsx:359-365): subscribeToAssets
\* registers the listener and its result is kept in `unsubscribe`, then
\* processOfflineQueue of the render the effect belongs to is called.
EffProcessOfflineQueue ==
  /\ effPc = "process"
  /\ effPc' = "done"
  /\ listening' = TRUE
  /\ awaitingSync' = FALSE
  /\ IF Len(effQueue) = 0
     THEN UNCHANGED <<offlineQueue, syncing, queueStore, storeOps, nextId,
                      returned, remoteLog>>
     ELSE /\ Len(storeOps) < MaxPending
          /\ \E outcome \in PassOutcomes(effQueue) : ProcessPass(effQueue, outcome)
  /\ UNCHANGED <<effQueue, isOnline, fetchPending, statusVars, helperVars, assetVars,
                 startVars, assets, loading, cachedStore, cacheOps, remote,
                 delivered, refreshPc, unmounted>>

\* a change of filters.status / filters.category: the cleanup of the effect
\* calls unsubscribe (App.tsx:378-382) and the effect runs again
\* (App.tsx:383) with the callbacks of the new render.
FilterChange ==
  /\ effPc = "done"
  /\ ~unmounted
  /\ effPc' = "loadCached"
  /\ effQueue' = offlineQueue
  /\ listening' = FALSE
  /\ UNCHANGED <<offlineQueue, syncing, queueStore, storeOps, nextId, returned,
                 remoteLog, netVars, statusVars, helperVars, assetVars, startVars,
                 assets, loading, cachedStore, cacheOps, remote, delivered,
                 refreshPc, unmounted>>

\* the component is unmounted while the effect is anywhere in its course:
\* the cleanup (App.tsx:378-382) calls unsubscribe when the variable has
\* been assigned, that is when subscribeToAssets has returned, and does
\* nothing otherwise.  setupSubscription is not told and runs on.
Unmount ==
  /\ ~unmounted
  /\ unmounted' = TRUE
  /\ listening' = FALSE
  /\ UNCHANGED <<queueVars, netVars, statusVars, helperVars, assetVars, startVars,
                 assets, loading, cachedStore, cacheOps, remote, delivered,
                 refreshPc>>

\* the process is killed and started again: memory is as after construction
\* (App.tsx:245-252, 440), AsyncStorage keeps what completed writes left.
Restart ==
  /\ offlineQueue' = <<>>
  /\ syncing' = FALSE
  /\ storeOps' = <<>>
  /\ effPc' = "loadCached"
  /\ effQueue' = <<>>
  /\ isOnline' = TRUE
  /\ fetchPending' = 1
  /\ awaitingSync' = FALSE
  /\ assets' = <<>>
  /\ loading' = TRUE
  /\ cacheOps' = <<>>
  /\ delivered' = <<>>
  /\ refreshPc' = "idle"
  /\ listening' = FALSE
  /\ unmounted' = FALSE
  /\ UNCHANGED <<queueStore, nextId, returned, remoteLog, statusVars, helperVars,
                 assetVars, startVars, cachedStore, remote>>

\* checkConnection (App.tsx:445-450), run by the 5 s interval
\* (App.tsx:453): issues a probe and nothing else.
CheckConnection ==
  /\ fetchPending < MaxFetch
  /\ fetchPending' = fetchPending + 1
  /\ UNCHANGED <<queueVars, isOnline, awaitingSync, statusVars, appVars>>

\* a probe settles (App.tsx:448-449): setIsOnline(true) when it resolves,
\* setIsOnline(false) when it rejects.  No other state is touched.
FetchDone(ok) ==
  /\ fetchPending > 0
  /\ fetchPending' = fetchPending - 1
  /\ isOnline' = ok
  /\ awaitingSync' = (awaitingSync \/ (~isOnline /\ ok /\ offlineQueue # <<>>))
  /\ UNCHANGED <<queueVars, statusVars, appVars>>

\* the clock advances by one instant.
ClockTick ==
  /\ now < MaxClockDays * TicksPerDay - 1
  /\ now' = now + 1
  /\ UNCHANGED <<queueVars, netVars, nextServiceDue, serviceStatus, evaluatedAt, appVars>>

\* a call of getServiceStatus on the asset's nextServiceDue (part_000:122).
GetServiceStatus ==
  /\ serviceStatus' = getServiceStatus(nextServiceDue, now)
  /\ evaluatedAt' = now
  /\ UNCHANGED <<queueVars, netVars, now, nextServiceDue, appVars>>

\* ---------------------------------------------------------- specifications
\* the useAssets hook and its callers.  useNetworkStatus shares no state with
\* the hook and no screen mounts it; SyncSpec below runs the two together.
Next ==
  \/ \E doc \in Docs : AddToOfflineQueue(doc)
  \/ ProcessOfflineQueue
  \/ \E ok \in BOOLEAN : SaveOfflineQueueDone(ok)
  \/ \E ok \in BOOLEAN : EffLoadCachedAssets(ok)
  \/ \E ok \in BOOLEAN : EffLoadOfflineQueue(ok)
  \/ EffProcessOfflineQueue
  \/ FilterChange
  \/ Restart

Spec == Init /\ [][Next]_vars

\* useAssets and useNetworkStatus mounted together and left alone: the user
\* enqueues mutations and does nothing else.  The interval timer, the probe,
\* AsyncStorage and the effect's continuation are scheduled by the runtime,
\* so each of them eventually runs.
SyncNext ==
  \/ \E doc \in Docs : AddToOfflineQueue(doc)
  \/ \E ok \in BOOLEAN : SaveOfflineQueueDone(ok)
  \/ \E ok \in BOOLEAN : EffLoadCachedAssets(ok)
  \/ \E ok \in BOOLEAN : EffLoadOfflineQueue(ok)
  \/ EffProcessOfflineQueue
  \/ CheckConnection
  \/ \E ok \in BOOLEAN : FetchDone(ok)

SyncSpec ==
  /\ Init
  /\ [][SyncNext]_vars
  /\ WF_vars(CheckConnection)
  /\ WF_vars(\E ok \in BOOLEAN : FetchDone(ok))
  /\ WF_vars(\E ok \in BOOLEAN : SaveOfflineQueueDone(ok))
  /\ WF_vars(\E ok \in BOOLEAN : EffLoadCachedAssets(ok))
  /\ WF_vars(\E ok \in BOOLEAN : EffLoadOfflineQueue(ok))
  /\ WF_vars(EffProcessOfflineQueue)

\* getServiceStatus applied to every due date and clock value of the bounds.
StatusInit ==
  /\ InitQueue
  /\ InitNet
  /\ now = 0
  /\ nextServiceDue \in DueInstants \cup {Absent}
  /\ serviceStatus = "none"
  /\ evaluatedAt = 0
  /\ InitApp

StatusNext ==
  \/ ClockTick
  \/ GetServiceStatus

StatusSpec == StatusInit /\ [][StatusNext]_vars

\* ------------------------------------------------------- the asset cache
\* cacheAssets (App.tsx:268-274): the setItem call it issues.
cacheNothing(list) == [key |-> CACHED_ASSETS_KEY, value |-> JSONstringify(<<>>)]
cacheAssets(list) == [key |-> CACHED_ASSETS_KEY, value |-> JSONstringify(list)]

\* the Remote Store's list changes: another device adds an asset, which the
\* query orders first (part_000:1202).
RemoteChange ==
  /\ Len(remote) < MaxRemote
  /\ remote' = <<Asset(Len(remote) + 1, "1")>> \o remote
  /\ UNCHANGED <<queueVars, netVars, statusVars, helperVars, assetVars, startVars, assets,
                 loading, cachedStore, cacheOps, delivered, refreshPc, listening,
                 unmounted>>

\* the callback given to subscribeToAssets (App.tsx:359-362), called by
\* onSnapshot while the listener is in place: the list is put in state
\* (unless the component is gone) and cacheAssets is called without being
\* awaited.
Snapshot ==
  /\ listening
  /\ delivered # <<remote>> \/ (assets # remote /\ ~unmounted)
  /\ Len(cacheOps) < MaxPending
  /\ IF unmounted
     THEN UNCHANGED <<assets, loading>>
     ELSE /\ assets' = remote
          /\ loading' = FALSE
  /\ delivered' = <<remote>>
  /\ cacheOps' = Append(cacheOps, cacheAssets(remote))
  /\ UNCHANGED <<queueVars, netVars, statusVars, helperVars, assetVars, startVars,
                 cachedStore, remote, refreshPc, listening, unmounted>>

\* the oldest pending setItem of cacheAssets completes and the value is
\* stored under its key; a rejection is caught and logged (App.tsx:271-273).
CacheAssetsDone(ok) ==
  /\ cacheOps # <<>>
  /\ LET call == Head(cacheOps) IN
       /\ cachedStore' = IF ok /\ call.key = CACHED_ASSETS_KEY
                         THEN call.value ELSE cachedStore
       /\ queueStore' = IF ok /\ call.key = OFFLINE_QUEUE_KEY
                        THEN call.value ELSE queueStore
  /\ cacheOps' = Tail(cacheOps)
  /\ UNCHANGED <<offlineQueue, syncing, storeOps, effPc, effQueue, nextId, returned,
                 remoteLog, netVars, statusVars, helperVars, assetVars, startVars,
                 assets, loading, remote, delivered, refreshPc, listening, unmounted>>

\* refresh up to the await of getAssets (App.tsx:386-389).
RefreshStart ==
  /\ refreshPc = "idle"
  /\ ~unmounted
  /\ refreshPc' = "getAssets"
  /\ loading' = TRUE
  /\ UNCHANGED <<queueVars, netVars, statusVars, helperVars, assetVars, startVars, assets,
                 cachedStore, cacheOps, remote, delivered, listening, unmounted>>

\* the rest of refresh (App.tsx:389-398): the list read is put in state and
\* cached; a failed read only ends loading.
RefreshDone(ok) ==
  /\ refreshPc = "getAssets"
  /\ refreshPc' = "idle"
  /\ loading' = IF unmounted THEN loading ELSE FALSE
  /\ IF ok
     THEN /\ Len(cacheOps) < MaxPending
          /\ assets' = IF unmounted THEN assets ELSE remote
          /\ delivered' = <<remote>>
          /\ cacheOps' = Append(cacheOps, cacheAssets(remote))
     ELSE UNCHANGED <<assets, delivered, cacheOps>>
  /\ UNCHANGED <<queueVars, netVars, statusVars, helperVars, assetVars, startVars,
                 cachedStore, remote, listening, unmounted>>

\* what an earlier run of the application can have left in AsyncStorage:
\* nothing, an older list, or a value that does not parse.
CacheInit ==
  /\ offlineQueue = <<>>
  /\ syncing = FALSE
  /\ queueStore \in {NoValue, Corrupt}
  /\ storeOps = <<>>
  /\ effPc = "loadCached"
  /\ effQueue = <<>>
  /\ nextId = 1
  /\ returned = {}
  /\ remoteLog = <<>>
  /\ InitNet
  /\ now = 0
  /\ nextServiceDue = Absent
  /\ serviceStatus = "none"
  /\ evaluatedAt = 0
  /\ InitHelpers
  /\ InitAsset
  /\ assets = <<>>
  /\ loading = TRUE
  /\ cachedStore \in {NoValue, Corrupt, JSONstringify(<<Asset(0, "1")>>)}
  /\ cacheOps = <<>>
  /\ remote = <<Asset(1, "1")>>
  /\ delivered = <<>>
  /\ refreshPc = "idle"
  /\ listening = FALSE
  /\ unmounted = FALSE
  /\ firebaseConfig = ConfigKeys
  /\ InitStart

\* the hook with its subscription, refresh, filter changes and unmount; no
\* mutation is enqueued.
CacheNext ==
  \/ \E ok \in BOOLEAN : EffLoadCachedAssets(ok)
  \/ \E ok \in BOOLEAN : EffLoadOfflineQueue(ok)
  \/ EffProcessOfflineQueue
  \/ FilterChange
  \/ Unmount
  \/ Restart
  \/ RemoteChange
  \/ Snapshot
  \/ \E ok \in BOOLEAN : CacheAssetsDone(ok)
  \/ RefreshStart
  \/ \E ok \in BOOLEAN : RefreshDone(ok)

CacheSpec == CacheInit /\ [][CacheNext]_vars

\* the hook with its queue and its cache in use together: mutations are
\* enqueued (all for one document) and replayed while the subscription
\* delivers lists.  A replay pass is asked for while no write of the queue
\* is pending, and the loads of the start-up succeed.
HookNext ==
  \/ AddToOfflineQueue("A")
  \/ ProcessOfflineQueue /\ storeOps = <<>>
  \/ \E ok \in BOOLEAN : SaveOfflineQueueDone(ok)
  \/ EffLoadCachedAssets(TRUE)
  \/ EffLoadOfflineQueue(TRUE)
  \/ EffProcessOfflineQueue
  \/ RemoteChange
  \/ Snapshot
  \/ \E ok \in BOOLEAN : CacheAssetsDone(ok)

HookSpec == Init /\ [][HookNext]_vars

\* the values a safeWorkingLoad read from the Remote Store can have.
Loads == {"1", "NaN"}

\* the lists of up to MaxAssets assets, each document at most once.
AssetLists ==
  UNION {{l \in [1..n -> {Asset(id, load) : id \in 1..MaxAssets, load \in Loads}] :
            \A i, j \in 1..n : i # j => l[i].id # l[j].id} : n \in 0..MaxAssets}

\* the hook on an empty store, the Remote Store holding any of the lists.
RoundTripInit ==
  /\ InitQueue
  /\ InitNet
  /\ now = 0
  /\ nextServiceDue = Absent
  /\ serviceStatus = "none"
  /\ evaluatedAt = 0
  /\ InitHelpers
  /\ InitAsset
  /\ assets = <<>>
  /\ loading = TRUE
  /\ cachedStore = NoValue
  /\ cacheOps = <<>>
  /\ remote \in AssetLists
  /\ delivered = <<>>
  /\ refreshPc = "idle"
  /\ listening = FALSE
  /\ unmounted = FALSE
  /\ firebaseConfig = ConfigKeys
  /\ InitStart

\* the list is delivered and cached, the application is started again and
\* loads the cache; AsyncStorage works: getItem and setItem of the cache
\* key succeed.
RoundTripNext ==
  \/ EffLoadCachedAssets(TRUE)
  \/ \E ok \in BOOLEAN : EffLoadOfflineQueue(ok)
  \/ EffProcessOfflineQueue
  \/ Snapshot
  \/ CacheAssetsDone(TRUE)
  \/ Restart

RoundTripSpec == RoundTripInit /\ [][RoundTripNext]_vars

\* ------------------------------------------------ the start of the app
\* validateConfig (config.ts:51-62) throws when a required key has no value.
validateConfigThrows == requiredKeys \ firebaseConfig # {}

\* what App renders (App.tsx:37-63); nothing before it is mounted or after
\* an exception that no handler caught.
Screen ==
  IF bootPc \in {"bundle", "crashed"} THEN "none"
  ELSE IF appLoading THEN "spinner"
  ELSE IF appError THEN "error"
  ELSE "navigator"

\* the modules App.tsx imports are evaluated.  With the imports evaluated
\* eagerly this runs the body of api/assets, whose `const db =
\* getFirebaseDB()` (part_000:876) goes through getFirebaseApp and
\* initializeFirebaseApp to validateConfig (config.ts:246-252, 231-236,
\* 70-95): the exception leaves the import and App is never mounted.  With
\* requires inlined by the bundler the body runs only when the navigator is
\* first rendered.  Which of the two holds is a setting of the build.
EvaluateModules(eager) ==
  /\ bootPc = "bundle"
  /\ IF eager /\ validateConfigThrows
     THEN /\ bootPc' = "crashed"
          /\ UNCHANGED app
     ELSE /\ bootPc' = "mounted"
          /\ app' = eager
  /\ UNCHANGED <<queueVars, netVars, statusVars, helperVars, assetVars, cacheVars,
                 firebaseConfig, appLoading, appError, remoteOps>>

\* the effect of App calls initializeFirebase (App.tsx:20-35, config.ts
\* 210-216): initializeFirebaseApp returns the existing app or validates the
\* configuration and creates one; its exception rejects the promise.
AppInit ==
  /\ bootPc = "mounted"
  /\ IF ~app /\ validateConfigThrows
     THEN /\ bootPc' = "rejected"
          /\ UNCHANGED app
     ELSE /\ bootPc' = "auth"
          /\ app' = TRUE
  /\ UNCHANGED <<queueVars, netVars, statusVars, helperVars, assetVars, cacheVars,
                 firebaseConfig, appLoading, appError, remoteOps>>

\* the await of initializeFirebase settles (App.tsx:24-31): the catch block
\* sets the error, the finally block ends loading.  initializeFirebaseAuth
\* can throw as well (config.ts:98-143).
AppInitSettles(ok) ==
  /\ bootPc \in {"rejected", "auth"}
  /\ bootPc' = "settled"
  /\ appError' = (bootPc = "rejected" \/ ~ok)
  /\ appLoading' = FALSE
  /\ UNCHANGED <<queueVars, netVars, statusVars, helperVars, assetVars, cacheVars,
                 firebaseConfig, app, remoteOps>>

\* the navigator is on screen and one of its hooks calls the Remote Store
\* (onAuthStateChanged App.tsx:140-141, subscribeToAssets App.tsx:359).
RemoteOperation ==
  /\ Screen = "navigator"
  /\ ~remoteOps
  /\ remoteOps' = TRUE
  /\ UNCHANGED <<queueVars, netVars, statusVars, helperVars, assetVars, cacheVars,
                 firebaseConfig, bootPc, app, appLoading, appError>>

\* the application started with every combination of configuration keys.
StartInit ==
  /\ InitQueue
  /\ InitNet
  /\ now = 0
  /\ nextServiceDue = Absent
  /\ serviceStatus = "none"
  /\ evaluatedAt = 0
  /\ InitHelpers
  /\ InitAsset
  /\ InitCache
  /\ firebaseConfig \in SUBSET ConfigKeys
  /\ InitStart

StartNext ==
  \/ \E eager \in BOOLEAN : EvaluateModules(eager)
  \/ AppInit
  \/ \E ok \in BOOLEAN : AppInitSettles(ok)
  \/ RemoteOperation

StartSpec == StartInit /\ [][StartNext]_vars

\* ------------------------------------------------- the frequency helpers
\* parseServiceFrequency applied to the text of the input (part_000:898).
ParseServiceFrequency ==
  /\ helperPc = "input"
  /\ serviceFrequencyDays' = parseServiceFrequency(frequency)
  /\ helperPc' = "parsed"
  /\ UNCHANGED <<queueVars, netVars, statusVars, frequency, lastServiceDate,
                 assetVars, cacheVars, startVars>>

\* calculateNextServiceDue applied to the date of the input and the parsed
\* frequency (part_000:896-899).
CalculateNextServiceDue ==
  /\ helperPc = "parsed"
  /\ nextServiceDue' = calculateNextServiceDue(lastServiceDate, serviceFrequencyDays)
  /\ helperPc' = "calculated"
  /\ UNCHANGED <<queueVars, netVars, now, serviceStatus, evaluatedAt, frequency,
                 lastServiceDate, serviceFrequencyDays, assetVars, cacheVars, startVars>>

\* the two helpers over every text and every date of the bounds.
HelperInit ==
  /\ InitQueue
  /\ InitNet
  /\ now = 0
  /\ nextServiceDue = Absent
  /\ serviceStatus = "none"
  /\ evaluatedAt = 0
  /\ frequency \in Texts
  /\ lastServiceDate \in ServiceDates \cup {Absent}
  /\ serviceFrequencyDays = Absent
  /\ helperPc = "input"
  /\ InitAsset
  /\ InitCache
  /\ firebaseConfig = ConfigKeys
  /\ InitStart

HelperNext ==
  \/ ParseServiceFrequency
  \/ CalculateNextServiceDue

HelperSpec == HelperInit /\ [][HelperNext]_vars

\* ------------------------------------------------------ the asset services
\* values the forms hand to the services.  Every text field of a form is a
\* string, '' when left empty (EditAssetScreen.tsx:30-46,
\* AddServiceRecordScreen.tsx:22-28), and '' is the empty sequence.
FormFrequencies == {<<>>, <<"garbage">>, <<"3", "1">>}

\* dates are entered without a time of day and read as local midnight; the
\* forms give no date or the first day of the clock.
FormDates == {Absent, <<0>>}

FormStatuses == {"", "in-use"}

FormAmounts == {<<>>, <<"1">>}

\* parseCurrency (part_000:336-343) and the parseFloat of safeWorkingLoad
\* (part_000:1035): undefined for a text without a digit.
parseCurrency(value) ==
  LET cleaned == SelectSeq(value, LAMBDA c : c \in DigitChars)
  IN IF cleaned = <<>> THEN Absent ELSE <<DecimalValue(cleaned)>>

\* Firestore refuses data with a field whose value is undefined (the db is
\* created without ignoreUndefinedProperties, config.ts:155-168; createAsset
\* strips such fields for that reason, part_000:931-934).
RejectsUndefined(fields) == \E i \in 1..Len(fields) : fields[i] = Absent

\* an entry handed to addHistoryEntry (part_000:1238-1246): field, oldValue
\* and newValue are optional, Absent when not given and the value (a text,
\* a date, or <<string>>) otherwise.
HistoryEntry(action, field, oldValue, newValue) ==
  [action |-> action, field |-> field, oldValue |-> oldValue, newValue |-> newValue]

\* addHistoryEntry without its catch block.
addHistoryEntryRethrows(entry, ok) ==
  LET written == ok /\ ~RejectsUndefined(<<entry.field, entry.oldValue, entry.newValue>>)
  IN [written |-> written, throws |-> ~written]

\* addHistoryEntry (part_000:1251-1283): setDoc of the entry, with field,
\* oldValue and newValue among its properties whether given or not
\* (part_000:1264-1266), so Firestore refuses an entry that lacks one of
\* them; the error of a refused or failed write is logged and not thrown.
addHistoryEntry(entry, ok) ==
  LET written == ok /\ ~RejectsUndefined(<<entry.field, entry.oldValue, entry.newValue>>)
  IN [written |-> written, throws |-> FALSE]

\* the calls of addHistoryEntry a service makes, the history store working
\* (ok) or not.
HistoryResults(entries, ok) ==
  [i \in 1..Len(entries) |-> addHistoryEntry(entries[i], ok)]

HistoryWrite(results) ==
  IF results = <<>> THEN "none"
  ELSE IF \A i \in 1..Len(results) : results[i].written THEN "written"
  ELSE "failed"

\* how a service that has done its own write ends: an exception leaving
\* addHistoryEntry is caught by the service and thrown again as its failure
\* (part_000:951-954 and the like).
Reported(results) ==
  IF \E i \in 1..Len(results) : results[i].throws THEN "failed" ELSE "ok"

\* the value trackChanges reads from oldAsset (part_000:1317): undefined for
\* a field the document lacks, which is how an empty text or date of the
\* create form is stored (part_000:918-919, 931-934).
OldValue(value) == IF value = <<>> THEN Absent ELSE <<value>>

\* one step of the loop of trackChanges (part_000:1314-1347): an entry when
\* the old and the new value of the field differ.  The new value is one of
\* updateData and is never undefined when the update was accepted.
Change(field, changed, oldValue, newValue) ==
  IF ~changed THEN <<>>
  ELSE <<HistoryEntry(IF field = "status" THEN "status-changed" ELSE "updated",
                      <<field>>, oldValue, <<newValue>>)>>

\* trackChanges (part_000:1304-1348) over the fields the model keeps; status
\* is among the keys of updateData only when the form gave one.
trackChanges(old, status, text, last, due, dueStatus) ==
  (IF status # ""
   THEN Change("status", old.status # status, <<old.status>>, status)
   ELSE <<>>)
    \o Change("serviceFrequency", old.serviceFrequency # text,
               OldValue(old.serviceFrequency), text)
    \o Change("lastServiceDate", old.lastServiceDate # last,
               OldValue(old.lastServiceDate), last)
    \o Change("nextServiceDue", old.nextServiceDue # due,
               OldValue(old.nextServiceDue), due)
    \o Change("serviceStatus", old.serviceStatus # dueStatus,
               <<old.serviceStatus>>, dueStatus)

\* createAsset (part_000:886-955): one setDoc of the whole document, then
\* the history entry.
CreateAsset(status, text, last) ==
  /\ ~asset.exists
  /\ status # ""
  /\ LET due == calculateNextServiceDue(last, parseServiceFrequency(text))
     IN asset' = [exists |-> TRUE, status |-> status,
                  serviceFrequency |-> trim(text), lastServiceDate |-> last,
                  nextServiceDue |-> due,
                  serviceStatus |-> getServiceStatus(due, now)]
  /\ imageUrls' = <<>>
  /\ LET results == HistoryResults(<<HistoryEntry("created", Absent, Absent, Absent)>>, TRUE)
     IN /\ historyWrite' = HistoryWrite(results)
        /\ reported' = Reported(results)
  /\ UNCHANGED <<queueVars, netVars, statusVars, helperVars, cacheVars, startVars,
                 serviceRecords, svc, upd, displayed, img>>

\* updateAsset up to the result of getAssetById (part_000:1007-1013).
UpdateAssetGetAsset ==
  /\ upd.pc = "idle"
  /\ asset.exists
  /\ upd' = [pc |-> "updateDoc", status |-> asset.status,
             lastServiceDate |-> asset.lastServiceDate,
             serviceFrequency |-> asset.serviceFrequency,
             nextServiceDue |-> asset.nextServiceDue,
             serviceStatus |-> asset.serviceStatus]
  /\ UNCHANGED <<queueVars, netVars, statusVars, helperVars, cacheVars, startVars,
                 asset, serviceRecords, svc, displayed, historyWrite, reported,
                 imageUrls, img>>

\* the rest of updateAsset (part_000:1015-1073) with the values of the edit
\* form: updateData is built and written by one updateDoc, then trackChanges
\* writes the history, the history store working (hok) or not; the call
\* throws and writes nothing when Firestore refuses updateData.
UpdateAssetUpdateDoc(status, text, last, load, hok) ==
  /\ upd.pc = "updateDoc"
  /\ LET lastDate == IF last # Absent THEN last ELSE upd.lastServiceDate
         freq == IF text # <<>> THEN text ELSE upd.serviceFrequency
         due == calculateNextServiceDue(lastDate, parseServiceFrequency(freq))
         results == HistoryResults(
                      trackChanges(upd, status, trim(text), last, due,
                                   getServiceStatus(due, now)), hok)
     IN IF RejectsUndefined(<<due, parseCurrency(load)>>)
        THEN /\ UNCHANGED asset
             /\ historyWrite' = "none"
             /\ reported' = "failed"
        ELSE /\ asset' = [asset EXCEPT
                            !.status = IF status # "" THEN status ELSE @,
                            !.serviceFrequency = trim(text),
                            !.lastServiceDate = last,
                            !.nextServiceDue = due,
                            !.serviceStatus = getServiceStatus(due, now)]
             /\ historyWrite' = HistoryWrite(results)
             /\ reported' = Reported(results)
  /\ upd' = UpdIdle
  /\ UNCHANGED <<queueVars, netVars, statusVars, helperVars, cacheVars, startVars,
                 serviceRecords, svc, displayed, imageUrls, img>>

\* deleteAsset (part_000:1078-1106): updateDoc of status, the document
\* stays; then the history entry, given old and new value and no field.
DeleteAsset ==
  /\ asset.exists
  /\ asset' = [asset EXCEPT !.status = "retired"]
  /\ LET results == HistoryResults(
                      <<HistoryEntry("status-changed", Absent, <<"active">>,
                                     <<"retired">>)>>, TRUE)
     IN /\ historyWrite' = HistoryWrite(results)
        /\ reported' = Reported(results)
  /\ UNCHANGED <<queueVars, netVars, statusVars, helperVars, cacheVars, startVars,
                 serviceRecords, svc, upd, displayed, imageUrls, img>>

\* assignToRoom (part_000:1549-1580), called with a user
\* (ScannerScreen.tsx:76).
AssignToRoom ==
  /\ asset.exists
  /\ asset' = [asset EXCEPT !.status = "in-use"]
  /\ LET results == HistoryResults(
                      <<HistoryEntry("location-changed", Absent, Absent, Absent)>>, TRUE)
     IN /\ historyWrite' = HistoryWrite(results)
        /\ reported' = Reported(results)
  /\ UNCHANGED <<queueVars, netVars, statusVars, helperVars, cacheVars, startVars,
                 serviceRecords, svc, upd, displayed, imageUrls, img>>

\* markAsSpare (part_000:1585-1610).
MarkAsSpare ==
  /\ asset.exists
  /\ asset' = [asset EXCEPT !.status = "spare"]
  /\ LET results == HistoryResults(
                      <<HistoryEntry("status-changed", Absent, Absent, Absent)>>, TRUE)
     IN /\ historyWrite' = HistoryWrite(results)
        /\ reported' = Reported(results)
  /\ UNCHANGED <<queueVars, netVars, statusVars, helperVars, cacheVars, startVars,
                 serviceRecords, svc, upd, displayed, imageUrls, img>>

\* markOutOfService (part_000:1615-1640).
MarkOutOfService ==
  /\ asset.exists
  /\ asset' = [asset EXCEPT !.status = "out-of-service"]
  /\ LET results == HistoryResults(
                      <<HistoryEntry("status-changed", Absent, Absent, Absent)>>, TRUE)
     IN /\ historyWrite' = HistoryWrite(results)
        /\ reported' = Reported(results)
  /\ UNCHANGED <<queueVars, netVars, statusVars, helperVars, cacheVars, startVars,
                 serviceRecords, svc, upd, displayed, imageUrls, img>>

\* addServiceRecord up to the result of getAssetById (part_000:1365-1389):
\* the record is built and, when the asset has a frequency, given its
\* nextServiceDue.
AddServiceRecordGetAsset(serviceDate, amount) ==
  /\ svc.pc = "idle"
  /\ IF ~asset.exists
     THEN /\ svc' = [svc EXCEPT !.pc = "failed"]
          /\ historyWrite' = "none"
          /\ reported' = "failed"
     ELSE /\ svc' = [svc EXCEPT
                       !.pc = "setDoc",
                       !.serviceDate = serviceDate,
                       !.cost = parseCurrency(amount),
                       !.serviceFrequency = asset.serviceFrequency,
                       !.hasNextServiceDue = asset.serviceFrequency # <<>>,
                       !.nextServiceDue =
                          IF asset.serviceFrequency # <<>>
                          THEN calculateNextServiceDue(serviceDate,
                                 parseServiceFrequency(asset.serviceFrequency))
                          ELSE Absent]
          /\ UNCHANGED <<historyWrite, reported>>
  /\ UNCHANGED <<queueVars, netVars, statusVars, helperVars, cacheVars, startVars,
                 asset, serviceRecords, upd, displayed, imageUrls, img>>

\* setDoc of the service record (part_000:1391-1393) and, when it succeeds,
\* the building of updateData (part_000:1396-1403).
AddServiceRecordSetDoc(ok) ==
  /\ svc.pc = "setDoc"
  /\ IF \/ ~ok
        \/ RejectsUndefined(<<svc.serviceDate, svc.cost>>)
        \/ svc.hasNextServiceDue /\ svc.nextServiceDue = Absent
     THEN /\ svc' = [svc EXCEPT !.pc = "failed"]
          /\ historyWrite' = "none"
          /\ reported' = "failed"
          /\ UNCHANGED serviceRecords
     ELSE /\ serviceRecords' = Append(serviceRecords,
                 [serviceDate |-> svc.serviceDate,
                  nextServiceDue |-> svc.nextServiceDue])
          /\ svc' = [svc EXCEPT
                       !.pc = "updateDoc",
                       !.serviceStatus = getServiceStatus(svc.nextServiceDue, now)]
          /\ UNCHANGED <<historyWrite, reported>>
  /\ UNCHANGED <<queueVars, netVars, statusVars, helperVars, cacheVars, startVars,
                 asset, upd, displayed, imageUrls, img>>

\* updateDoc of the asset (part_000:1405), then the history entry
\* (part_000:1408-1413).
AddServiceRecordUpdateDoc(ok) ==
  /\ svc.pc = "updateDoc"
  /\ IF ~ok \/ RejectsUndefined(<<svc.serviceDate, svc.nextServiceDue>>)
     THEN /\ svc' = [svc EXCEPT !.pc = "failed"]
          /\ historyWrite' = "none"
          /\ reported' = "failed"
          /\ UNCHANGED asset
     ELSE LET results == HistoryResults(
                           <<HistoryEntry("service-completed", Absent, Absent, Absent)>>,
                           TRUE)
          IN /\ svc' = [svc EXCEPT
                          !.pc = IF Reported(results) = "ok" THEN "done" ELSE "failed"]
             /\ asset' = [asset EXCEPT
                            !.lastServiceDate = svc.serviceDate,
                            !.nextServiceDue = svc.nextServiceDue,
                            !.serviceStatus = svc.serviceStatus]
             /\ historyWrite' = HistoryWrite(results)
             /\ reported' = Reported(results)
  /\ UNCHANGED <<queueVars, netVars, statusVars, helperVars, cacheVars, startVars,
                 serviceRecords, upd, displayed, imageUrls, img>>

\* the download URLs in a list of imageUrls.
Urls(list) == {list[i] : i \in 1..Len(list)}

\* uploadAssetImage up to the download URL (part_000:1456-1471): the file is
\* stored under a name of its own, so every call gets a URL of its own; the
\* call throws when the upload fails.
UploadAssetImage(c, ok) ==
  /\ img[c].pc = "idle"
  /\ IF ok
     THEN /\ img' = [img EXCEPT ![c] = [pc |-> "getAsset", kind |-> "upload",
                                        url |-> c, read |-> <<>>]]
          /\ UNCHANGED <<historyWrite, reported>>
     ELSE /\ img' = [img EXCEPT ![c].pc = "failed", ![c].kind = "upload"]
          /\ historyWrite' = "none"
          /\ reported' = "failed"
  /\ UNCHANGED <<queueVars, netVars, statusVars, helperVars, cacheVars, startVars,
                 asset, serviceRecords, svc, upd, displayed, imageUrls>>

\* deleteAssetImage up to deleteObject (part_000:1510-1513) for an image of
\* the asset; the call throws when the file cannot be deleted.
DeleteAssetImage(c, imageUrl, ok) ==
  /\ img[c].pc = "idle"
  /\ imageUrl \in Urls(imageUrls)
  /\ IF ok
     THEN /\ img' = [img EXCEPT ![c] = [pc |-> "getAsset", kind |-> "delete",
                                        url |-> imageUrl, read |-> <<>>]]
          /\ UNCHANGED <<historyWrite, reported>>
     ELSE /\ img' = [img EXCEPT ![c].pc = "failed", ![c].kind = "delete"]
          /\ historyWrite' = "none"
          /\ reported' = "failed"
  /\ UNCHANGED <<queueVars, netVars, statusVars, helperVars, cacheVars, startVars,
                 asset, serviceRecords, svc, upd, displayed, imageUrls>>

\* the getAssetById of either call (part_000:1474-1475, 1516-1517): the call
\* keeps the imageUrls it has read, and returns when there is no asset.
ImageGetAsset(c) ==
  /\ img[c].pc = "getAsset"
  /\ IF asset.exists
     THEN /\ img' = [img EXCEPT ![c].pc = "updateDoc", ![c].read = imageUrls]
          /\ UNCHANGED <<historyWrite, reported>>
     ELSE /\ img' = [img EXCEPT ![c].pc = "done"]
          /\ historyWrite' = "none"
          /\ reported' = "ok"
  /\ UNCHANGED <<queueVars, netVars, statusVars, helperVars, cacheVars, startVars,
                 asset, serviceRecords, svc, upd, displayed, imageUrls>>

\* the updateDoc of either call (part_000:1476-1482, 1518-1524), which
\* writes the list built from the one read, then the history entry
\* (part_000:1485-1490, 1527-1532).
ImageUpdateDoc(c, ok) ==
  /\ img[c].pc = "updateDoc"
  /\ IF ~ok
     THEN /\ img' = [img EXCEPT ![c].pc = "failed"]
          /\ historyWrite' = "none"
          /\ reported' = "failed"
          /\ UNCHANGED imageUrls
     ELSE LET results == HistoryResults(
                           <<HistoryEntry(IF img[c].kind = "upload"
                                          THEN "image-added" ELSE "image-removed",
                                          Absent, Absent, Absent)>>, TRUE)
          IN /\ imageUrls' =
                  IF img[c].kind = "upload"
                  THEN Append(img[c].read, img[c].url)
                  ELSE SelectSeq(img[c].read, LAMBDA url : url # img[c].url)
             /\ img' = [img EXCEPT
                          ![c].pc = IF Reported(results) = "ok" THEN "done"
                                    ELSE "failed"]
             /\ historyWrite' = HistoryWrite(results)
             /\ reported' = Reported(results)
  /\ UNCHANGED <<queueVars, netVars, statusVars, helperVars, cacheVars, startVars,
                 asset, serviceRecords, svc, upd, displayed>>

\* a read of the asset's serviceStatus: the HomeScreen counters
\* (part_001:25-26) and the filter of getAssetsDueSoon (part_000:1154-1162)
\* take the stored field.
ReadServiceStatus ==
  /\ asset.exists
  /\ displayed' = asset.serviceStatus
  /\ UNCHANGED <<queueVars, netVars, statusVars, helperVars, cacheVars, startVars,
                 asset, serviceRecords, svc, upd, historyWrite, reported, imageUrls,
                 img>>

\* the asset services and their readers over the first day of the clock, the
\* history store reachable.
AssetNext ==
  \/ \E status \in FormStatuses, text \in FormFrequencies, last \in FormDates :
       CreateAsset(status, text, last)
  \/ UpdateAssetGetAsset
  \/ \E status \in FormStatuses, text \in FormFrequencies, last \in FormDates,
        load \in FormAmounts :
       UpdateAssetUpdateDoc(status, text, last, load, TRUE)
  \/ DeleteAsset
  \/ AssignToRoom
  \/ MarkAsSpare
  \/ MarkOutOfService
  \/ \E serviceDate \in FormDates, amount \in FormAmounts :
       AddServiceRecordGetAsset(serviceDate, amount)
  \/ \E ok \in BOOLEAN : AddServiceRecordSetDoc(ok)
  \/ \E ok \in BOOLEAN : AddServiceRecordUpdateDoc(ok)
  \/ ReadServiceStatus
  \/ ClockTick /\ now < TicksPerDay - 1

AssetSpec == Init /\ [][AssetNext]_vars

\* the services that write history, at one instant of the clock.
HistoryNext ==
  \/ \E status \in FormStatuses, text \in FormFrequencies, last \in FormDates :
       CreateAsset(status, text, last)
  \/ UpdateAssetGetAsset
  \/ \E status \in FormStatuses, text \in FormFrequencies, last \in FormDates,
        load \in FormAmounts, hok \in BOOLEAN :
       UpdateAssetUpdateDoc(status, text, last, load, hok)
  \/ DeleteAsset
  \/ AssignToRoom
  \/ MarkAsSpare
  \/ MarkOutOfService
  \/ \E serviceDate \in FormDates, amount \in FormAmounts :
       AddServiceRecordGetAsset(serviceDate, amount)
  \/ \E ok \in BOOLEAN : AddServiceRecordSetDoc(ok)
  \/ \E ok \in BOOLEAN : AddServiceRecordUpdateDoc(ok)

HistorySpec == Init /\ [][HistoryNext]_vars

\* an asset with one image, its URL 0, and no call running.
ImageInit ==
  /\ InitQueue
  /\ InitNet
  /\ now = 0
  /\ nextServiceDue = Absent
  /\ serviceStatus = "none"
  /\ evaluatedAt = 0
  /\ InitHelpers
  /\ InitCache
  /\ firebaseConfig = ConfigKeys
  /\ InitStart
  /\ asset = [exists |-> TRUE, status |-> "in-use", serviceFrequency |-> Absent,
              lastServiceDate |-> Absent, nextServiceDue |-> Absent,
              serviceStatus |-> "current"]
  /\ serviceRecords = <<>>
  /\ imageUrls = <<0>>
  /\ NoCalls

\* the image calls on the asset, interleaved at their awaits.
ImageNext ==
  \/ \E c \in ImageCalls, ok \in BOOLEAN : UploadAssetImage(c, ok)
  \/ \E c \in ImageCalls, imageUrl \in 0..MaxImageCalls, ok \in BOOLEAN :
       DeleteAssetImage(c, imageUrl, ok)
  \/ \E c \in ImageCalls : ImageGetAsset(c)
  \/ \E c \in ImageCalls, ok \in BOOLEAN : ImageUpdateDoc(c, ok)

ImageSpec == ImageInit /\ [][ImageNext]_vars

\* ------------------------------------------------------------------ claims
StoreIds == Ids(LoadedQueue(queueStore))

ActiveIds == StoreIds \cup Ids(offlineQueue)

Applied == {remoteLog[i] : i \in 1..Len(remoteLog)}

DeadIds == {deadLetter[i].id : i \in 1..Len(deadLetter)}

\* the setItem calls of passes that have not completed.
PassesInFlight == {k \in 1..Len(storeOps) : storeOps[k].op = "flush"}

LogIds(log) == {log[i].item.id : i \in 1..Len(log)}

\* a occurs before b in the sequence s.
Before(s, a, b) ==
  \E x, y \in 1..Len(s) : x < y /\ s[x] = a /\ s[y] = b

\* C1: when addToOfflineQueue returns for a mutation m, whatever the outcome
\* of the store write, the queue a restart would reload from the store
\* contains m.
C1_EnqueueDurable ==
  [][\A m \in returned' \ returned : m \in Ids(LoadedQueue(queueStore'))]_vars

\* the step completes (or discards) the setItem call of a pass.
PassAtHead == storeOps # <<>> /\ Head(storeOps).op = "flush"

\* C2: a mutation that a pass has gone through leaves the queue (in memory
\* and in the store) only when the Remote Store has acknowledged it: in the
\* state where it is gone, and not dead-lettered, it has been applied
\* remotely.
C2_RemovedOnlyAfterAck ==
  [][PassAtHead =>
       \A m \in LogIds(Head(storeOps).log) \cap ActiveIds :
         (m \notin ActiveIds' /\ m \notin DeadIds) => m \in Applied']_vars

\* C3: when a pass has replayed m1 and then m2, both on the same document
\* and both without failure, the Remote Store has observed m1 and then m2.
C3_PerDocumentFifo ==
  \A k \in PassesInFlight :
    LET log == storeOps[k].log IN
      \A i, j \in 1..Len(log) :
        ( /\ i < j
          /\ log[i].item.documentId = log[j].item.documentId
          /\ log[i].outcome = "ok"
          /\ log[j].outcome = "ok" )
        => Before(remoteLog, log[i].item.id, log[j].item.id)

\* C4: at most one replay pass is in flight, and no mutation is replayed by
\* two passes that overlap.
C4_FlushCoalesces ==
  /\ Cardinality(PassesInFlight) <= 1
  /\ \A k1, k2 \in PassesInFlight :
       k1 # k2 => LogIds(storeOps[k1].log) \cap LogIds(storeOps[k2].log) = {}

\* C5: a pass that completes while an enqueue is in progress loses no
\* mutation: every mutation that was persisted and that the pass did not
\* replay is still persisted (or applied, or dead-lettered) once the pass
\* has written its result.
C5_FlushKeepsEnqueued ==
  [][PassAtHead =>
       \A m \in StoreIds \ LogIds(Head(storeOps).log) :
          m \in StoreIds' \cup Applied' \cup DeadIds]_vars

RetryBounded(q) == \A i \in 1..Len(q) : q[i].retryCount <= MaxRetryCount

\* the ids whose replay failed in the pass with the log `log`.
FailedIds(log) == {log[i].item.id : i \in {j \in 1..Len(log) : log[j].outcome # "ok"}}

C9_AutomaticSync ==
  /\ awaitingSync ~> ~awaitingSync
  /\ (offlineQueue # <<>>) ~> (syncing \/ offlineQueue = <<>>)

\* the status the calendar rule assigns: delta is the number of calendar
\* days from the day of `today` to the day of `due`.
CalendarDelta(due, today) == (due[1] \div TicksPerDay) - (today \div TicksPerDay)

StatusOf(due, today) ==
  IF due = Absent THEN "current"
  ELSE IF CalendarDelta(due, today) < 0 THEN "overdue"
  ELSE IF CalendarDelta(due, today) <= DueSoonDays THEN "due-soon"
  ELSE "current"

\* C10: whatever the time of day of the evaluation, getServiceStatus is
\* overdue for a calendar delta below 0, due-soon for 0..30, current above 30
\* and current for an absent due date.
C10_StatusByCalendarDays ==
  serviceStatus # "none" => serviceStatus = StatusOf(nextServiceDue, evaluatedAt)

\* calendar day and time of day of an instant.
DayOf(instant) == instant \div TicksPerDay
TimeOfDay(instant) == instant % TicksPerDay

IsInteger(t) ==
  LET u == IF t # <<>> /\ Head(t) = "-" THEN Tail(t) ELSE t
  IN u # <<>> /\ DigitPrefix(u) = Len(u)

\* the days the documented formats give a text, read generously: a text with
\* "monthly" that starts with a number N is N months, a text with "yearly"
\* or "annual" is N years with N = 1 when it starts with no number (or with
\* 0), letter case and surrounding white space are ignored; everything else
\* is a number of days only when the whole text is an integer.
DocumentedFrequency(text) ==
  IF text = Absent THEN Absent
  ELSE LET t == toLowerCase(trim(text))
           n == parseInt(t)
       IN IF includes(t, "monthly") /\ n # NaN THEN <<n[1] * DaysPerMonth>>
          ELSE IF includes(t, "yearly") \/ includes(t, "annual")
            THEN <<(IF n = NaN \/ n[1] = 0 THEN 1 ELSE n[1]) * DaysPerYear>>
          ELSE IF IsInteger(t) THEN n
          ELSE Absent

\* C12: parseServiceFrequency maps an integer N to N days, "<N>-monthly" to
\* N*30, a text with "yearly" or "annual" to N*365 (N = 1 without a number),
\* and every other text, the empty one included, to absent.
C12_ParseFrequency ==
  helperPc # "input" => serviceFrequencyDays = DocumentedFrequency(frequency)

\* C13: a read of serviceStatus returns the status of the asset's
\* nextServiceDue at the date of the read, also when the date has advanced
\* since the last write.  The status of a date is taken as getServiceStatus
\* computes it, so that only the age of the stored value is in question.
C13_StatusDerivedAtRead ==
  [][displayed' # displayed =>
       displayed' = getServiceStatus(asset.nextServiceDue, now)]_vars

\* C17: deleteAsset keeps the document and sets its status to retired, and
\* no later operation gives a retired asset another status.
C17_RetiredIsTerminal ==
  [][ /\ asset.exists => asset'.exists
      /\ (asset.exists /\ asset.status = "retired") => asset'.status = "retired" ]_vars

\* the step on which an addServiceRecord call succeeds.
AddServiceRecordSucceeds == svc.pc = "updateDoc" /\ svc'.pc = "done"

\* C19: when addServiceRecord succeeds, the record's nextServiceDue is
\* calculateNextServiceDue of the service date and the parsed frequency the
\* call read from the asset, the asset's lastServiceDate is the service
\* date, its nextServiceDue is the record's and its serviceStatus is the
\* status the calendar rule gives that date.
C19_ServiceRecordSchedule ==
  [][AddServiceRecordSucceeds =>
       LET record == serviceRecords[Len(serviceRecords)]
       IN /\ record.nextServiceDue =
               calculateNextServiceDue(svc.serviceDate,
                                       parseServiceFrequency(svc.serviceFrequency))
          /\ asset'.lastServiceDate = svc.serviceDate
          /\ asset'.nextServiceDue = record.nextServiceDue
          /\ asset'.serviceStatus = StatusOf(asset'.nextServiceDue, now)]_vars

\* the steps on which loadCachedAssets and loadOfflineQueue return to
\* setupSubscription.
LoadCachedAssetsReturns == effPc = "loadCached" /\ effPc' = "loadQueue"
LoadOfflineQueueReturns == effPc = "loadQueue" /\ effPc' = "process"

\* C14: loading a stored value that does not deserialize returns normally,
\* leaves an empty asset list (or queue), and the corrupt value is no longer
\* stored afterwards.
C14_CorruptDataDiscarded ==
  [][ /\ (effPc = "loadCached" /\ effPc' # effPc /\ cachedStore = Corrupt) =>
           /\ LoadCachedAssetsReturns
           /\ assets' = <<>>
           /\ cachedStore' # Corrupt
      /\ (effPc = "loadQueue" /\ effPc' # effPc /\ queueStore = Corrupt) =>
           /\ LoadOfflineQueueReturns
           /\ offlineQueue' = <<>>
           /\ queueStore' # Corrupt ]_vars

C16_ColdStartOrdering ==
  [][ /\ (delivered = <<>> /\ delivered' # <<>> /\ refreshPc' = refreshPc) =>
           effPc = "done"
      /\ (delivered # <<>> /\ delivered' # <<>> /\ assets' # assets) =>
           assets' = delivered'[1] ]_vars

\* C18: with a required configuration key missing the navigator is never
\* rendered, no Remote Store operation is issued, and once the start has
\* run its course the application shows the blocking error screen.
C18_ConfigErrorFatal ==
  validateConfigThrows =>
    /\ Screen # "navigator"
    /\ ~remoteOps
    /\ bootPc \in {"crashed", "settled"} => Screen = "error"

\* the mutations a pass that has not written its result yet is replaying.
InFlightIds == UNION {LogIds(storeOps[k].log) : k \in PassesInFlight}

\* C20: a mutation is pending (in the active queue), in flight (in a pass)
\* or, finally, applied or dead-lettered: a mutation whose enqueue has
\* returned and which is neither pending nor in flight never comes back
\* into the active queue, so it is not replayed again.
C20_TerminalStates ==
  [][\A m \in returned :
       (m \notin ActiveIds /\ m \notin InFlightIds) => m \notin ActiveIds']_vars

\* C24: an enqueue whose write lands leaves the persisted queue with every
\* mutation that was persisted before, followed by the new one, the
\* mutations being in the order of their calls (ids are handed out in call
\* order); in particular two calls issued before the first has updated the
\* in-memory queue both end up persisted.
C24_NoLostEnqueue ==
  [][ (storeOps # <<>> /\ Head(storeOps).op = "enqueue" /\ queueStore' # queueStore) =>
        LET stored == LoadedQueue(queueStore')
        IN /\ StoreIds \subseteq Ids(stored)
           /\ stored # <<>>
           /\ stored[Len(stored)].id = Head(storeOps).id
           /\ \A i, j \in 1..Len(stored) : i < j => stored[i].id < stored[j].id ]_vars

\* C21: at most one call is between the start and the completion of its
\* write of the persisted queue, and at most one of its write of the cached
\* snapshot.
C21_SingleWriter ==
  /\ Len(storeOps) <= 1
  /\ Len(cacheOps) <= 1

\* the AssetStatus enumeration (part_000:1651).
AssetStatus == {"in-use", "spare", "out-of-service", "under-repair", "missing"}

\* C28: every value written to the status field of an asset is a member of
\* the AssetStatus enumeration.
C28_StatusDomain ==
  [][asset'.status # asset.status => asset'.status \in AssetStatus]_vars

\* C25: a stored asset's nextServiceDue is calculateNextServiceDue of its
\* own stored lastServiceDate and parsed serviceFrequency, also after an
\* update that clears one of the two.
C25_StoredScheduleConsistent ==
  asset.exists =>
    asset.nextServiceDue =
      calculateNextServiceDue(asset.lastServiceDate,
                              parseServiceFrequency(asset.serviceFrequency))

\* the step on which an addServiceRecord call returns, with or without error.
AddServiceRecordReturns ==
  svc.pc \in {"idle", "setDoc", "updateDoc"} /\ svc'.pc \in {"done", "failed"}

\* C26: when addServiceRecord returns, its service record is in the Remote
\* Store exactly when its update of the asset was applied, and neither was
\* written when the call reports failure.
C26_ServiceRecordAllOrNothing ==
  [][AddServiceRecordReturns =>
       LET recordWritten == Len(serviceRecords') > Len(serviceRecords)
                              \/ svc.pc = "updateDoc"
           assetUpdated == svc'.pc = "done"
       IN /\ recordWritten <=> assetUpdated
          /\ svc'.pc = "failed" => ~recordWritten ]_vars

\* C22: a step of cacheAssets or loadCachedAssets leaves the mutation queue
\* (in memory, persisted and its pending writes) as it was, a step of the
\* queue leaves the cached snapshot, its pending writes and the asset list
\* as they were, and no element of the cached snapshot is a queued mutation.
C22_CacheQueueIndependent ==
  [][ /\ (cacheOps' # cacheOps \/ cachedStore' # cachedStore \/ LoadCachedAssetsReturns)
           => UNCHANGED <<offlineQueue, queueStore, storeOps>>
      /\ (storeOps' # storeOps \/ queueStore' # queueStore \/ offlineQueue' # offlineQueue)
           => UNCHANGED <<cachedStore, cacheOps, assets>>
      /\ (cachedStore' # NoValue /\ Deserializes(cachedStore')) =>
           \A i \in 1..Len(JSONparse(cachedStore')) :
             "documentId" \notin DOMAIN JSONparse(cachedStore')[i] ]_vars

C22_Witness ==
  /\ cachedStore = JSONstringify(remote)
  /\ Len(remote) = MaxRemote
  /\ Len(LoadedQueue(queueStore)) = MaxItems
  /\ storeOps # <<>>
  /\ cacheOps = <<>>

\* C27: once the cleanup of the effect has run, the listener the effect
\* registers is not in place, also when the cleanup ran while
\* setupSubscription was awaiting the cache and queue loads; so no snapshot
\* reaches the hook or the cache afterwards.
C27_NoSubscriptionAfterCleanup == unmounted => ~listening

\* C30: with a working store, loadCachedAssets after a completed
\* cacheAssets(L) makes the asset list equal to L, same elements in the same
\* order, with loading false.  Under RoundTripSpec L is the Remote Store's
\* list, the only list given to cacheAssets.
C30_CacheRoundTrip ==
  [][ (LoadCachedAssetsReturns /\ cachedStore # NoValue) =>
        (assets' = remote /\ loading' = FALSE) ]_vars


\* the step on which a call of the asset services has written the asset and
\* returns: a write that changes the document, the end of updateAsset, or
\* the end of addServiceRecord after its updateDoc.
AssetWriterReturns ==
  \/ asset' # asset
  \/ upd.pc = "updateDoc" /\ upd'.pc = "idle"
  \/ svc.pc = "updateDoc" /\ svc'.pc # "updateDoc"

\* C23: when a history write of createAsset, updateAsset, deleteAsset,
\* addServiceRecord or a quick action fails, the call reports success and
\* the asset document is there; addServiceRecord ends as done with its
\* update of the asset in place.
C23_HistoryNonCritical ==
  [][(AssetWriterReturns /\ historyWrite' = "failed") =>
       /\ reported' = "ok"
       /\ asset'.exists
       /\ svc.pc = "updateDoc" /\ svc'.pc # "updateDoc" =>
            /\ svc'.pc = "done"
            /\ asset'.lastServiceDate = svc.serviceDate ]_vars

\* an addServiceRecord call has returned with its asset update applied and
\* its history entry refused.
C23_Witness ==
  /\ historyWrite = "failed"
  /\ reported = "ok"
  /\ svc.pc = "done"
  /\ asset.lastServiceDate = svc.serviceDate


\* C29: once every image call on the asset has completed, at least one of
\* them an upload, imageUrls holds the URL of every upload that no call
\* deleted and holds no URL that a call deleted.
C29_ConcurrentImageEdits ==
  (/\ \A c \in ImageCalls : img[c].pc = "done"
   /\ \E c \in ImageCalls : img[c].kind = "upload") =>
    \A c \in ImageCalls :
      /\ img[c].kind = "upload" =>
           \/ img[c].url \in Urls(imageUrls)
           \/ \E d \in ImageCalls : img[d].kind = "delete" /\ img[d].url = img[c].url
      /\ img[c].kind = "delete" => img[c].url \notin Urls(imageUrls)

====
